---- MODULE Spec2Model ----
(***************************************************************************)
(* The preference store of gpu-preference (src/application/src/main.py):   *)
(* normalize_path, Pref, RegistryManager.{read_all, set_pref, delete,      *)
(* backup, restore} over the registry key REG_PATH.                        *)
(*                                                                         *)
(* A path is a sequence of one-character strings.  A registry value is a   *)
(* sequence of lexemes ("GpuPreference=", a digit, ";", ...).  The key is  *)
(* a record [exists, vals]: vals is the set of <<name, value>> pairs under *)
(* the key, at most one pair per name.  No two names of the model differ   *)
(* in letter case alone, so the registry's rule for letter case in value   *)
(* names plays no part.  The order in which EnumValue yields the pairs is  *)
(* not fixed by the registry: every operation that enumerates is modelled  *)
(* for every order.                                                        *)
(*                                                                         *)
(* Besides the calls taken whole, the module has: set_pref and restore     *)
(* with a write the registry refuses; the count of open key handles;       *)
(* restore taken one registry call at a time beside another writer; and    *)
(* the handlers of MainWindow and its delegates that keep the table        *)
(* (_load_entries, _add_paths, _on_remove_selected, _on_change_selected,   *)
(* PathDelegate.setModelData, PrefDelegate.setModelData).                  *)
(***************************************************************************)
EXTENDS Integers, Sequences, FiniteSets, TLC

VARIABLES
  reg,    \* the key HKCU\REG_PATH: [exists |-> BOOLEAN, vals |-> set of <<name, value>>]
  file,   \* the text of the backup file written by backup()
  last,   \* the call under observation: operation, arguments, exception, result
  pre,    \* reg as it was when the call under observation started
  log,    \* the set_pref calls made so far, in order (scenario specifications)
  phase,  \* position in the backup / clear / restore scenario
  snap,   \* what read_all() returned, as a set, right before the last backup
  normed, \* a path string, then the results of normalize_path applied to it in turn
  handles,\* the number of handles to the key that are open
  job,    \* a restore() in progress, one registry call at a time
  hist,   \* per value name, the last write made to it, and by whom
  table,  \* MainWindow.model: the rows of the table, [exe, pref] texts
  default_gpu_high_perf  \* MainWindow.default_gpu_high_perf

vars == <<reg, file, last, pre, log, phase, snap,
          normed, handles, job, hist, table, default_gpu_high_perf>>

\* What the calls on RegistryManager alone leave as it is.
other == <<normed, job, hist, table, default_gpu_high_perf>>

----------------------------------------------------------------------------
(* Bounds of the model *)

\* The most values the key holds when another program adds one.
MaxEntries == 2
\* The most members of a JSON object handed to restore.
MaxDoc == 2
\* The most set_pref calls in a scenario.
MaxCalls == 2
\* The most lexemes of a value another program writes, where values are parsed.
MaxValLen == 3
\* The most characters of a path string handed to normalize_path alone.
MaxPathLen == 5
\* How many times in a row normalize_path is applied to its own result.
MaxApply == 2
\* The most writes the other program makes beside one restore.
MaxExtWrites == 2
\* The most paths handed to the add flow at once.
MaxBatch == 2

----------------------------------------------------------------------------
(* Paths: os.path.normpath (ntpath) and normalize_path *)

Sep == "\\"
AltSep == "/"
CurDir == <<".">>
ParDir == <<".", ".">>

\* str.upper() on the characters paths are built from.
Upper(ch) ==
  CASE ch = "a" -> "A"
    [] ch = "b" -> "B"
    [] ch = "c" -> "C"
    [] OTHER -> ch

\* path.replace(altsep, sep)
ReplaceAlt(p) == [i \in 1..Len(p) |-> IF p[i] = AltSep THEN Sep ELSE p[i]]

\* ntpath.splitdrive for a path that is not a UNC path: <<drive, rest>>.
splitdrive(p) ==
  IF Len(p) >= 2 /\ p[2] = ":"
    THEN <<SubSeq(p, 1, 2), SubSeq(p, 3, Len(p))>>
    ELSE << <<>>, p >>

RECURSIVE LStripSep(_)
\* path.lstrip(sep)
LStripSep(p) ==
  IF p # <<>> /\ Head(p) = Sep THEN LStripSep(Tail(p)) ELSE p

RECURSIVE Split(_)
\* p split at its first separator, at index k.
SplitAt(p, k) == <<SubSeq(p, 1, k - 1)>> \o Split(SubSeq(p, k + 1, Len(p)))

\* path.split(sep): the components between separators, at least one.
Split(p) ==
  IF \A i \in 1..Len(p) : p[i] # Sep
    THEN <<p>>
    ELSE SplitAt(p, CHOOSE i \in 1..Len(p) :
                      p[i] = Sep /\ \A j \in 1..(i - 1) : p[j] # Sep)

\* del comps[a-1:b] (1-based a..b removed)
DelRange(comps, a, b) == SubSeq(comps, 1, a - 1) \o SubSeq(comps, b + 1, Len(comps))

RECURSIVE Collapse(_, _, _)
\* normpath's while loop over comps, i counted from 0.
Collapse(comps, i, rooted) ==
  IF i >= Len(comps) THEN comps
  ELSE
    IF comps[i + 1] = <<>> \/ comps[i + 1] = CurDir
      THEN Collapse(DelRange(comps, i + 1, i + 1), i, rooted)
    ELSE IF comps[i + 1] = ParDir
      THEN IF i > 0 /\ comps[i] # ParDir
             THEN Collapse(DelRange(comps, i, i + 1), i - 1, rooted)
           ELSE IF i = 0 /\ rooted
             THEN Collapse(DelRange(comps, 1, 1), i, rooted)
           ELSE Collapse(comps, i + 1, rooted)
    ELSE Collapse(comps, i + 1, rooted)

RECURSIVE Join(_)
\* sep.join(comps)
Join(comps) ==
  IF comps = <<>> THEN <<>>
  ELSE IF Len(comps) = 1 THEN comps[1]
  ELSE comps[1] \o <<Sep>> \o Join(Tail(comps))

\* normpath's end: an empty result becomes ".", then prefix + sep.join(comps).
NormJoin(prefix, comps) ==
  prefix \o Join(IF prefix = <<>> /\ comps = <<>> THEN <<CurDir>> ELSE comps)

\* normpath after splitdrive: the leading separators join the prefix, the
\* rest is split into components and collapsed.
NormRest(drive, rest, rooted) ==
  NormJoin(IF rooted THEN drive \o <<Sep>> ELSE drive,
           Collapse(Split(LStripSep(rest)), 0, rooted))

NormSplit(sd) == NormRest(sd[1], sd[2], sd[2] # <<>> /\ Head(sd[2]) = Sep)

\* os.path.normpath on Windows, for paths that do not start with two separators.
normpath(path) == NormSplit(splitdrive(ReplaceAlt(path)))

\* normalize_path after normpath: the drive letter upper-cased.
UpperDrive(q) ==
  IF Len(q) >= 2 /\ q[2] = ":"
    THEN <<Upper(q[1])>> \o SubSeq(q, 2, Len(q))
    ELSE q

normalize_path(p) == UpperDrive(normpath(p))

----------------------------------------------------------------------------
(* Pref *)

POWER == 1
PERF == 2
Prefs == {POWER, PERF}

\* str(int) for the codes a Pref has.
IntStr(n) == IF n = 1 THEN "1" ELSE "2"

\* f"GpuPreference={int(pref)};"
FormatValue(pref) == <<"GpuPreference=", IntStr(pref), ";">>

\* The literal "GpuPreference=2".
Marker == <<"GpuPreference=", "2">>

\* Python's `needle in val` on strings.
Contains(val, needle) ==
  \E i \in 0..(Len(val) - Len(needle)) :
    \A j \in 1..Len(needle) : val[i + j] = needle[j]

\* A slip: the whole value compared with "GpuPreference=2;".
from_reg_value_Exact(val) == IF val = <<"GpuPreference=", "2", ";">> THEN PERF ELSE POWER

from_reg_value(val) == IF Contains(val, Marker) THEN PERF ELSE POWER

\* Pref(code): the member whose value is code; ValueError (FALSE here) otherwise.
IsPrefCode(code) == code.t = "int" /\ code.v \in Prefs

----------------------------------------------------------------------------
(* The registry key *)

NoKey == [exists |-> FALSE, vals |-> {}]

ValueNames(vals) == {e[1] : e \in vals}

\* A slip: every value whose name normalizes to name is replaced.
SetValueEx_Fold(vals, name, value) ==
  {e \in vals : normalize_path(e[1]) # name} \cup {<<name, value>>}

\* winreg.SetValueEx(key, name, 0, REG_SZ, value)
SetValueEx(vals, name, value) == {e \in vals : e[1] # name} \cup {<<name, value>>}

\* winreg.DeleteValue(key, name), when the value exists
DeleteValue(vals, name) == {e \in vals : e[1] # name}

\* Every order in which EnumValue(key, 0), EnumValue(key, 1), ... may yield vals.
RECURSIVE Orders(_)
Orders(vals) ==
  IF vals = {} THEN {<<>>}
  ELSE UNION {{<<e>> \o s : s \in Orders(vals \ {e})} : e \in vals}

Entry(exe, pref) == [exe |-> exe, pref |-> pref]

\* `except OSError` catches OSError and its subclass FileNotFoundError.
IsOSError(e) == e \in {"OSError", "FileNotFoundError"}

RECURSIVE ReadLoop(_, _, _)
\* A slip: the loop gives up one value early.
ReadLoop_Short(enum, i, out) ==
  IF i >= Len(enum) - 1 THEN [ret |-> out, err |-> "OSError"]
  ELSE ReadLoop(enum, i + 1,
         Append(out, Entry(normalize_path(enum[i + 1][1]),
                           from_reg_value(enum[i + 1][2]))))

\* The `while True` of read_all: it ends only when EnumValue(key, i) raises
\* OSError, at i = number of values.
ReadLoop(enum, i, out) ==
  IF i >= Len(enum) THEN [ret |-> out, err |-> "OSError"]
  ELSE ReadLoop(enum, i + 1,
         Append(out, Entry(normalize_path(enum[i + 1][1]),
                           from_reg_value(enum[i + 1][2]))))

\* The body of read_all's try, when EnumValue yields the values in the order enum.
ReadTry(r, enum) ==
  IF ~r.exists THEN [ret |-> <<>>, err |-> "FileNotFoundError"]   \* OpenKey
  ELSE ReadLoop(enum, 0, <<>>)

\* A slip: `except FileNotFoundError` where the code has `except OSError`.
CatchOSError_NotFound(t) ==
  IF t.err = "FileNotFoundError" THEN [ret |-> t.ret, err |-> "none"] ELSE t

\* read_all's `except OSError: pass`, then `return out`.
CatchOSError(t) == IF IsOSError(t.err) THEN [ret |-> t.ret, err |-> "none"] ELSE t

\* read_all(): [ret |-> the list returned, err |-> the exception raised].
read_all(r, enum) == CatchOSError(ReadTry(r, enum))

\* A slip: the value is written under the path as given.
set_pref_Raw(r, exe_path, pref) ==
  [exists |-> TRUE, vals |-> SetValueEx(r.vals, exe_path, FormatValue(pref))]

\* A slip: a value that is already there is left alone.
set_pref_IfAbsent(r, exe_path, pref) ==
  IF normalize_path(exe_path) \in ValueNames(r.vals) THEN r
  ELSE [exists |-> TRUE,
        vals   |-> SetValueEx(r.vals, normalize_path(exe_path), FormatValue(pref))]

\* set_pref(exe_path, pref): the key afterwards.
set_pref(r, exe_path, pref) ==
  [exists |-> TRUE,               \* CreateKeyEx
   vals   |-> SetValueEx(r.vals, normalize_path(exe_path), FormatValue(pref))]

\* The body of delete's try.
DeleteTry(r, exe_norm) ==
  IF ~r.exists THEN [reg |-> r, err |-> "FileNotFoundError"]      \* OpenKey
  ELSE IF exe_norm \notin ValueNames(r.vals)
    THEN [reg |-> r, err |-> "FileNotFoundError"]                 \* DeleteValue
  ELSE [reg |-> [r EXCEPT !.vals = DeleteValue(r.vals, exe_norm)], err |-> "none"]

\* delete(exe_path): [reg |-> the key afterwards, err |-> the exception raised].
\* A slip: no except clause.
CatchNotFound_Missing(t) == t

\* delete's `except FileNotFoundError: pass`.
CatchNotFound(t) ==
  IF t.err = "FileNotFoundError" THEN [reg |-> t.reg, err |-> "none"] ELSE t

delete(r, exe_path) == CatchNotFound(DeleteTry(r, normalize_path(exe_path)))

----------------------------------------------------------------------------
(* JSON files *)

\* A file's text: no file, text that is not JSON, a JSON array, or a JSON
\* object whose members are <<key, value>>, a value an integer or a string.
NoFile == [t |-> "missing", items |-> <<>>]
NotJson == [t |-> "bad", items |-> <<>>]
JsonArray == [t |-> "arr", items |-> <<>>]
JsonObject(items) == [t |-> "obj", items |-> items]
JInt(n) == [t |-> "int", v |-> n]
JStr == [t |-> "str", v |-> 0]

\* d[k] = v on a dict kept as its items in insertion order.
DictSet(d, k, v) ==
  IF \E i \in 1..Len(d) : d[i][1] = k
    THEN [i \in 1..Len(d) |-> IF d[i][1] = k THEN <<k, v>> ELSE d[i]]
    ELSE Append(d, <<k, v>>)

RECURSIVE DictOf(_, _)
\* The dict built from pairs, in order, starting from d.
DictOf(pairs, d) ==
  IF pairs = <<>> THEN d
  ELSE DictOf(Tail(pairs), DictSet(d, Head(pairs)[1], Head(pairs)[2]))

\* json.load of a text that parses: a dict (its items) or a list.
json_load(text) ==
  IF text.t = "obj" THEN [t |-> "dict", items |-> DictOf(text.items, <<>>)]
  ELSE [t |-> "list", items |-> <<>>]

\* A slip: the preferences dumped as text.
json_dump_Text(data) ==
  JsonObject([i \in 1..Len(data) |-> <<data[i][1], JStr>>])

\* json.dump of a dict of str -> int.
json_dump(data) ==
  JsonObject([i \in 1..Len(data) |-> <<data[i][1], JInt(data[i][2])>>])

\* {e.exe: int(e.pref) for e in entries}
BackupData(entries) ==
  DictOf([i \in 1..Len(entries) |-> <<entries[i].exe, entries[i].pref>>], <<>>)

\* backup(to_file): [text |-> what the file holds afterwards, err].
BackupOf(ra, old) ==
  IF ra.err # "none" THEN [text |-> old, err |-> ra.err]
  ELSE [text |-> json_dump(BackupData(ra.ret)), err |-> "none"]

backup(r, enum, old) == BackupOf(read_all(r, enum), old)

RECURSIVE DeleteAll(_, _)
\* The loop after one delete returned d: an exception ends it.
DeleteRest(d, entries) ==
  IF d.err # "none" THEN d ELSE DeleteAll(d.reg, entries)

\* for e in RegistryManager.read_all(): RegistryManager.delete(e.exe)
DeleteAll(r, entries) ==
  IF entries = <<>> THEN [reg |-> r, err |-> "none"]
  ELSE DeleteRest(delete(r, Head(entries).exe), Tail(entries))

RECURSIVE Repopulate(_, _)
\* for exe, code in data.items(): set_pref(exe, Pref(code)); stops at the
\* first code Pref() rejects.
Repopulate(r, items) ==
  IF items = <<>> THEN [reg |-> r, err |-> "none"]
  ELSE IF ~IsPrefCode(Head(items)[2]) THEN [reg |-> r, err |-> "ValueError"]
  ELSE Repopulate(set_pref(r, Head(items)[1], Head(items)[2].v), Tail(items))

\* restore(from_file) on a file holding text: [reg |-> the key afterwards,
\* err |-> the exception that reaches the caller ("none": it returned)].
\* restore's second loop, over data.items(); a list has no items().
RestoreItems(data, cleared) ==
  IF cleared.err # "none" THEN cleared
  ELSE IF data.t # "dict" THEN [reg |-> cleared.reg, err |-> "AttributeError"]
  ELSE Repopulate(cleared.reg, data.items)

\* restore once json.load returned data and read_all returned ra.
RestoreData(r, data, ra) ==
  IF ra.err # "none" THEN [reg |-> r, err |-> ra.err]
  ELSE RestoreItems(data, DeleteAll(r, ra.ret))

restore(r, text, enum) ==
  IF text.t = "missing" THEN [reg |-> r, err |-> "FileNotFoundError"]
  ELSE IF text.t = "bad" THEN [reg |-> r, err |-> "JSONDecodeError"]
  ELSE RestoreData(r, json_load(text), read_all(r, enum))

----------------------------------------------------------------------------
(* Writes the registry refuses.  CreateKeyEx and SetValueEx raise            *)
(* PermissionError when access is denied; set_pref and restore have no       *)
(* except clause, so it leaves both.                                         *)

DeniedAt == {"CreateKeyEx", "SetValueEx"}

\* set_pref when the call `at` is denied: CreateKeyEx denied leaves the key as
\* it is, SetValueEx denied leaves the key created and the value unwritten.
set_pref_denied(r, at) ==
  IF at = "CreateKeyEx" THEN [reg |-> r, err |-> "PermissionError"]
  ELSE [reg |-> [exists |-> TRUE, vals |-> r.vals], err |-> "PermissionError"]

RECURSIVE RepopulateUntil_Swallow(_, _, _, _)
\* A slip: the loop catches the error of a write and goes on.
RepopulateUntil_Swallow(r, items, k, at) ==
  IF items = <<>> THEN [reg |-> r, err |-> "none"]
  ELSE IF ~IsPrefCode(Head(items)[2]) THEN [reg |-> r, err |-> "ValueError"]
  ELSE IF k = 0 THEN RepopulateUntil_Swallow(r, Tail(items), k - 1, at)
  ELSE RepopulateUntil_Swallow(set_pref(r, Head(items)[1], Head(items)[2].v),
                               Tail(items), k - 1, at)

RECURSIVE RepopulateUntil(_, _, _, _)
\* restore's second loop when k writes succeed and the next one is denied.
RepopulateUntil(r, items, k, at) ==
  IF items = <<>> THEN [reg |-> r, err |-> "none"]
  ELSE IF ~IsPrefCode(Head(items)[2]) THEN [reg |-> r, err |-> "ValueError"]
  ELSE IF k = 0 THEN set_pref_denied(r, at)
  ELSE RepopulateUntil(set_pref(r, Head(items)[1], Head(items)[2].v),
                       Tail(items), k - 1, at)

RestoreItemsDenied(data, cleared, k, at) ==
  IF cleared.err # "none" THEN cleared
  ELSE IF data.t # "dict" THEN [reg |-> cleared.reg, err |-> "AttributeError"]
  ELSE RepopulateUntil(cleared.reg, data.items, k, at)

RestoreDataDenied(r, data, ra, k, at) ==
  IF ra.err # "none" THEN [reg |-> r, err |-> ra.err]
  ELSE RestoreItemsDenied(data, DeleteAll(r, ra.ret), k, at)

\* restore(from_file) when its k+1-th write is denied.
restore_denied(r, text, enum, k, at) ==
  IF text.t = "missing" THEN [reg |-> r, err |-> "FileNotFoundError"]
  ELSE IF text.t = "bad" THEN [reg |-> r, err |-> "JSONDecodeError"]
  ELSE RestoreDataDenied(r, json_load(text), read_all(r, enum), k, at)

----------------------------------------------------------------------------
(* Handles to the key.  OpenKey and CreateKeyEx return a handle when they    *)
(* succeed; every call on RegistryManager uses it as `with ... as key:`.     *)
(* Each operator below gives the number of open handles after a call that    *)
(* started with h open.                                                      *)

\* A slip: key.Close() as the last statement of the block, not reached when
\* the block is left by an exception.
WithExit_OnReturn(h, err) == IF err = "none" THEN h - 1 ELSE h

\* Leaving the with block, by its end or by the exception err: PyHKEY's
\* __exit__ closes the handle.
WithExit(h, err) == h - 1

\* read_all: the block is left only by the OSError of EnumValue.
read_all_handles(r, h) == IF r.exists THEN WithExit(h + 1, "OSError") ELSE h

\* set_pref, denied at `at` ("nowhere": not denied).
set_pref_handles(h, at) ==
  IF at = "CreateKeyEx" THEN h
  ELSE WithExit(h + 1, IF at = "SetValueEx" THEN "PermissionError" ELSE "none")

delete_handles(r, exe_path, h) ==
  IF ~r.exists THEN h
  ELSE WithExit(h + 1, DeleteTry(r, normalize_path(exe_path)).err)

RECURSIVE DeleteAllHandles(_, _, _)
DeleteAllHandles(r, entries, h) ==
  IF entries = <<>> THEN h
  ELSE DeleteAllHandles(delete(r, Head(entries).exe).reg, Tail(entries),
                        delete_handles(r, Head(entries).exe, h))

RECURSIVE RepopulateHandles(_, _, _, _)
RepopulateHandles(items, k, at, h) ==
  IF items = <<>> \/ ~IsPrefCode(Head(items)[2]) THEN h
  ELSE IF k = 0 THEN set_pref_handles(h, at)
  ELSE RepopulateHandles(Tail(items), k - 1, at, set_pref_handles(h, "nowhere"))

RestoreItemsHandles(data, k, at, h) ==
  IF data.t # "dict" THEN h ELSE RepopulateHandles(data.items, k, at, h)

\* restore with its k+1-th write denied at `at` (k = -1: none is).
restore_handles(r, text, enum, k, at, h) ==
  IF text.t \in {"missing", "bad"} THEN h
  ELSE RestoreItemsHandles(json_load(text), k, at,
         DeleteAllHandles(r, read_all(r, enum).ret, read_all_handles(r, h)))

----------------------------------------------------------------------------
(* Inputs *)

Names == {"a", "b"}
Drives == {"c", "C"}
Seps == {Sep, AltSep}

\* The paths callers pass: c:\a, C:\a, c:/a, C:/a, ... ; C:\a and C:\b are
\* the normalized ones.
Paths == {<<d, ":", s, n>> : d \in Drives, s \in Seps, n \in Names}

\* Keys and values of the JSON objects handed to restore.  3 stands for every
\* integer that is no Pref value (0, 3, -1, ...): Pref() treats them alike.
DocKeys == {<<"C", ":", Sep, "a">>, <<"C", ":", AltSep, "a">>, <<"C", ":", Sep, "b">>}
DocValues == {JInt(1), JInt(2), JInt(3), JStr}
Members == DocKeys \X DocValues

ObjItems ==
  UNION {{s \in [1..n -> Members] :
            \A i, j \in 1..n : i # j => s[i][1] # s[j][1]} : n \in 0..MaxDoc}

\* The texts a file handed to restore may hold.
Files == {NotJson, JsonArray} \cup {JsonObject(s) : s \in ObjItems}

\* The names and values another program writes under the key.
ExtNames == {<<"C", ":", AltSep, "a">>, <<"C", ":", Sep, "a">>}
RawValues == {<<>>, FormatValue(POWER), FormatValue(PERF)}

\* Every value of at most MaxValLen lexemes.
Lexemes == {"GpuPreference=", "1", "2", ";"}
ValueStrings == UNION {[1..n -> Lexemes] : n \in 0..MaxValLen}

\* Every path string of at most MaxPathLen characters that does not start
\* with two separators.
Chars == {".", Sep, AltSep, ":", "c"}
PathStrings ==
  {p \in UNION {[1..n -> Chars] : n \in 0..MaxPathLen} :
     ~(Len(p) >= 2 /\ p[1] \in Seps /\ p[2] \in Seps)}

----------------------------------------------------------------------------
(* Calls.  A run is a sequence of calls; one of them, chosen freely, is put  *)
(* under observation: its arguments, the key before it, the exception it    *)
(* raised and the value it returned are recorded in last and pre, and the   *)
(* run ends there.                                                          *)

Call(op, path, pref, text, err, ret) ==
  [op |-> op, path |-> path, pref |-> pref, text |-> text, err |-> err, ret |-> ret]

NoCall == Call("none", <<>>, 0, NoFile, "none", <<>>)

Running == last = NoCall

Observe(obs, call) ==
  /\ last' = IF obs THEN call ELSE NoCall
  /\ pre' = IF obs THEN reg ELSE NoKey

\* No restore() in progress.
Idle == [pc |-> "idle", text |-> NoFile, todo |-> <<>>, items |-> <<>>, err |-> "none"]

\* A machine where the key does not exist, the window just opened.
InitKey ==
  /\ reg = NoKey
  /\ file = NoFile
  /\ last = NoCall
  /\ pre = NoKey
  /\ log = <<>>
  /\ phase = "set"
  /\ snap = {}
  /\ handles = 0
  /\ job = Idle
  /\ hist = [w |-> {}, late |-> {}, n |-> 0]
  /\ table = <<>>
  /\ default_gpu_high_perf = TRUE

Init == InitKey /\ normed = <<>>

DoSetPref(p, x, obs) ==
  /\ reg' = set_pref(reg, p, x)
  /\ Observe(obs, Call("set_pref", p, x, NoFile, "none", <<>>))
  /\ handles' = set_pref_handles(handles, "nowhere")
  /\ UNCHANGED file
  /\ UNCHANGED other

DoDelete(p, obs) ==
  \E d \in {delete(reg, p)} :
  /\ reg' = d.reg
  /\ Observe(obs, Call("delete", p, 0, NoFile, d.err, <<>>))
  /\ handles' = delete_handles(reg, p, handles)
  /\ UNCHANGED file
  /\ UNCHANGED other

\* In DoReadAll, DoBackup and DoRestore, enum is the order in which EnumValue
\* yields the values during the call.
DoReadAll(enum, obs) ==
  \E ra \in {read_all(reg, enum)} :
  /\ Observe(obs, Call("read_all", <<>>, 0, NoFile, ra.err, ra.ret))
  /\ handles' = read_all_handles(reg, handles)
  /\ UNCHANGED <<reg, file>>
  /\ UNCHANGED other

DoBackup(enum, obs) ==
  \E b \in {backup(reg, enum, file)} :
  /\ file' = b.text
  /\ Observe(obs, Call("backup", <<>>, 0, b.text, b.err, <<>>))
  /\ handles' = read_all_handles(reg, handles)
  /\ UNCHANGED reg
  /\ UNCHANGED other

DoRestore(text, enum, obs) ==
  \E res \in {restore(reg, text, enum)} :
  /\ reg' = res.reg
  /\ Observe(obs, Call("restore", <<>>, 0, text, res.err, <<>>))
  /\ handles' = restore_handles(reg, text, enum, -1, "nowhere", handles)
  /\ UNCHANGED file
  /\ UNCHANGED other

\* Another program (or the user, in regedit) deletes the key or empties it.
ExternalClear(obs) ==
  /\ reg' \in {NoKey, [exists |-> TRUE, vals |-> {}]}
  /\ Observe(obs, Call("clear", <<>>, 0, NoFile, "none", <<>>))
  /\ UNCHANGED <<file, handles>>
  /\ UNCHANGED other

\* Another program writes a value under the key, under a name of its choosing.
ExternalWrite(name, value) ==
  /\ Cardinality(reg.vals) < MaxEntries \/ name \in ValueNames(reg.vals)
  /\ reg' = [exists |-> TRUE, vals |-> SetValueEx(reg.vals, name, value)]
  /\ UNCHANGED <<file, last, pre, handles>>
  /\ UNCHANGED other

SetPref ==
  /\ Running
  /\ \E p \in Paths, x \in Prefs, obs \in BOOLEAN : DoSetPref(p, x, obs)
  /\ UNCHANGED <<log, phase, snap>>

Delete ==
  /\ Running
  /\ \E p \in Paths, obs \in BOOLEAN : DoDelete(p, obs)
  /\ UNCHANGED <<log, phase, snap>>

ReadAll ==
  /\ Running
  /\ \E enum \in Orders(reg.vals), obs \in BOOLEAN : DoReadAll(enum, obs)
  /\ UNCHANGED <<log, phase, snap>>

Backup ==
  /\ Running
  /\ \E enum \in Orders(reg.vals), obs \in BOOLEAN : DoBackup(enum, obs)
  /\ UNCHANGED <<log, phase, snap>>

\* backup(f) as the call under observation
BackupLast ==
  /\ Running
  /\ \E enum \in Orders(reg.vals) : DoBackup(enum, TRUE)
  /\ UNCHANGED <<log, phase, snap>>

\* restore(f) of the file backup(f) wrote
RestoreBackup ==
  /\ Running
  /\ \E enum \in Orders(reg.vals), obs \in BOOLEAN : DoRestore(file, enum, obs)
  /\ UNCHANGED <<log, phase, snap>>

\* restore of any other file
RestoreFile ==
  /\ Running
  /\ \E enum \in Orders(reg.vals), text \in Files, obs \in BOOLEAN : DoRestore(text, enum, obs)
  /\ UNCHANGED <<log, phase, snap>>

Clear ==
  /\ Running
  /\ \E obs \in BOOLEAN : ExternalClear(obs)
  /\ UNCHANGED <<log, phase, snap>>

Write ==
  /\ Running
  /\ \E name \in ExtNames, value \in RawValues : ExternalWrite(name, value)
  /\ UNCHANGED <<log, phase, snap>>

\* set_pref(p, x) with the write denied at `at`.
DoSetPrefDenied(p, x, at, obs) ==
  \E d \in {set_pref_denied(reg, at)} :
  /\ reg' = d.reg
  /\ Observe(obs, Call("set_pref", p, x, NoFile, d.err, <<at>>))
  /\ handles' = set_pref_handles(handles, at)
  /\ UNCHANGED file
  /\ UNCHANGED other

\* restore(text) with its k+1-th write denied at `at`.
DoRestoreDenied(text, enum, k, at, obs) ==
  \E res \in {restore_denied(reg, text, enum, k, at)} :
  /\ reg' = res.reg
  /\ Observe(obs, Call("restore", <<>>, 0, text, res.err, <<k, at>>))
  /\ handles' = restore_handles(reg, text, enum, k, at, handles)
  /\ UNCHANGED file
  /\ UNCHANGED other

SetPrefDenied ==
  /\ Running
  /\ \E p \in Paths, x \in Prefs, at \in DeniedAt, obs \in BOOLEAN :
       DoSetPrefDenied(p, x, at, obs)
  /\ UNCHANGED <<log, phase, snap>>

RestoreDenied ==
  /\ Running
  /\ \E enum \in Orders(reg.vals), text \in Files, k \in 0..(MaxDoc - 1),
        at \in DeniedAt, obs \in BOOLEAN :
       DoRestoreDenied(text, enum, k, at, obs)
  /\ UNCHANGED <<log, phase, snap>>

\* The program alone, started on a machine where the key does not exist.
Next ==
  \/ SetPref
  \/ Delete
  \/ ReadAll
  \/ Backup
  \/ RestoreBackup
  \/ RestoreFile
  \/ Clear

Spec == Init /\ [][Next]_vars

\* The program beside another program that writes under the same key.
NextExt ==
  \/ SetPref
  \/ Delete
  \/ ReadAll
  \/ RestoreFile
  \/ Clear
  \/ Write

SpecExt == Init /\ [][NextExt]_vars

\* The program alone, on a machine where the registry may refuse a write.
NextDenied ==
  \/ SetPref
  \/ Delete
  \/ ReadAll
  \/ BackupLast
  \/ RestoreFile
  \/ Clear
  \/ SetPrefDenied
  \/ RestoreDenied

SpecDenied == Init /\ [][NextDenied]_vars

----------------------------------------------------------------------------
(* Scenario: set_pref calls on a fresh machine, then backup(f), the key     *)
(* cleared by hand, restore(f).  log keeps every set_pref call.             *)

ToSet(list) == {list[i] : i \in 1..Len(list)}

ScnSetPref ==
  /\ phase = "set"
  /\ Len(log) < MaxCalls
  /\ \E p \in Paths, x \in Prefs :
       /\ DoSetPref(p, x, FALSE)
       /\ log' = Append(log, <<p, x>>)
  /\ UNCHANGED <<phase, snap>>

ScnBackup ==
  /\ phase = "set"
  /\ \E seen \in Orders(reg.vals), enum \in Orders(reg.vals) :
       /\ snap' = ToSet(read_all(reg, seen).ret)
       /\ DoBackup(enum, FALSE)
  /\ phase' = "backed"
  /\ UNCHANGED log

ScnClear ==
  /\ phase = "backed"
  /\ ExternalClear(FALSE)
  /\ phase' = "cleared"
  /\ UNCHANGED <<log, snap>>

ScnRestore ==
  /\ phase = "cleared"
  /\ \E enum \in Orders(reg.vals) : DoRestore(file, enum, TRUE)
  /\ phase' = "restored"
  /\ UNCHANGED <<log, snap>>

NextScenario ==
  \/ ScnSetPref
  \/ ScnBackup
  \/ ScnClear
  \/ ScnRestore

SpecScenario == Init /\ [][NextScenario]_vars

----------------------------------------------------------------------------
(* Parsing: another program leaves any value under one name; read_all.      *)

WriteAny ==
  /\ Running
  /\ \E v \in ValueStrings : ExternalWrite(<<"C", ":", Sep, "a">>, v)
  /\ UNCHANGED <<log, phase, snap>>

NextParse ==
  \/ WriteAny
  \/ ReadAll

SpecParse == Init /\ [][NextParse]_vars

----------------------------------------------------------------------------
(* restore() one registry call at a time, beside another program that       *)
(* writes under the same key.  job is restore's position: json.load and     *)
(* read_all() done ("delete", todo = the paths still to delete), the delete *)
(* loop done ("write", items = the members still to write), returned or     *)
(* raised ("done").  hist.w keeps, per value name, the last write made to   *)
(* it (Gone: a deletion); hist.late keeps the other program's last write    *)
(* per name made after the delete loop; hist.n counts its writes.           *)

Gone == <<"deleted">>

\* The files restored beside the other program: as Files, the values integers.
RaceFiles ==
  {NotJson, JsonArray} \cup
  {JsonObject(s) : s \in {t \in ObjItems : \A i \in 1..Len(t) : t[i][2].t = "int"}}

\* hist.w or hist.late after value v is written under name n.
LastWrite(ws, n, v) == {e \in ws : e[1] # n} \cup {<<n, v>>}

Exes(entries) == [i \in 1..Len(entries) |-> entries[i].exe]

Done(err) == [job EXCEPT !.pc = "done", !.err = err]

RaceSetPref ==
  /\ job.pc = "idle"
  /\ \E p \in Paths, x \in Prefs :
       /\ reg' = set_pref(reg, p, x)
       /\ hist' = [hist EXCEPT !.w = LastWrite(hist.w, normalize_path(p), FormatValue(x))]
  /\ UNCHANGED <<file, last, pre, log, phase, snap, normed, handles, job,
                 table, default_gpu_high_perf>>

\* with open(from_file): json.load(f), then RegistryManager.read_all()
RaceBegin ==
  /\ job.pc = "idle"
  /\ \E text \in RaceFiles, enum \in Orders(reg.vals) :
       job' = IF text.t = "bad"
                THEN [pc |-> "done", text |-> text, todo |-> <<>>, items |-> <<>>,
                      err |-> "JSONDecodeError"]
                ELSE [pc |-> "delete", text |-> text,
                      todo |-> Exes(read_all(reg, enum).ret),
                      items |-> json_load(text).items, err |-> "none"]
  /\ UNCHANGED <<reg, file, last, pre, log, phase, snap, normed, handles, hist,
                 table, default_gpu_high_perf>>

\* RegistryManager.delete(e.exe), one turn of the first loop
RaceDelete ==
  /\ job.pc = "delete"
  /\ job.todo # <<>>
  /\ reg' = delete(reg, Head(job.todo)).reg
  /\ hist' = IF reg.exists /\ normalize_path(Head(job.todo)) \in ValueNames(reg.vals)
               THEN [hist EXCEPT !.w = LastWrite(hist.w, normalize_path(Head(job.todo)), Gone)]
               ELSE hist
  /\ job' = [job EXCEPT !.todo = Tail(job.todo)]
  /\ UNCHANGED <<file, last, pre, log, phase, snap, normed, handles,
                 table, default_gpu_high_perf>>

\* data.items(), once the first loop is over
RaceItems ==
  /\ job.pc = "delete"
  /\ job.todo = <<>>
  /\ job' = IF job.text.t = "obj" THEN [job EXCEPT !.pc = "write"]
            ELSE Done("AttributeError")
  /\ UNCHANGED <<reg, file, last, pre, log, phase, snap, normed, handles, hist,
                 table, default_gpu_high_perf>>

\* RegistryManager.set_pref(exe, Pref(code)), one turn of the second loop
RaceSet ==
  /\ job.pc = "write"
  /\ job.items # <<>>
  /\ IF IsPrefCode(Head(job.items)[2])
       THEN /\ reg' = set_pref(reg, Head(job.items)[1], Head(job.items)[2].v)
            /\ hist' = [hist EXCEPT !.w = LastWrite(hist.w,
                           normalize_path(Head(job.items)[1]),
                           FormatValue(Head(job.items)[2].v))]
            /\ job' = [job EXCEPT !.items = Tail(job.items)]
       ELSE /\ job' = Done("ValueError")
            /\ UNCHANGED <<reg, hist>>
  /\ UNCHANGED <<file, last, pre, log, phase, snap, normed, handles,
                 table, default_gpu_high_perf>>

RaceReturn ==
  /\ job.pc = "write"
  /\ job.items = <<>>
  /\ job' = Done("none")
  /\ UNCHANGED <<reg, file, last, pre, log, phase, snap, normed, handles, hist,
                 table, default_gpu_high_perf>>

\* The other program writes a value, at any moment.
RaceWrite ==
  /\ hist.n < MaxExtWrites
  /\ \E name \in ExtNames, value \in RawValues :
       /\ reg' = [exists |-> TRUE, vals |-> SetValueEx(reg.vals, name, value)]
       /\ hist' = [w |-> LastWrite(hist.w, name, value),
                   late |-> IF job.pc \in {"write", "done"}
                              THEN LastWrite(hist.late, name, value) ELSE hist.late,
                   n |-> hist.n + 1]
  /\ UNCHANGED <<file, last, pre, log, phase, snap, normed, handles, job,
                 table, default_gpu_high_perf>>

NextRace ==
  \/ RaceSetPref
  \/ RaceBegin
  \/ RaceDelete
  \/ RaceItems
  \/ RaceSet
  \/ RaceReturn
  \/ RaceWrite

SpecRace == Init /\ [][NextRace]_vars

----------------------------------------------------------------------------
(* The window.  table is MainWindow.model, a row being the texts of its      *)
(* EXEC and PREF cells; the labels are the ones QSettings gives when none    *)
(* was customized.  The selection of a handler is any list of distinct rows. *)

label_power == "Power Saving"
label_perf == "High Performance"

Row(exe, pref) == [exe |-> exe, pref |-> pref]

\* _load_entries: the rows rebuilt from what read_all() returned.
load_entries(entries) ==
  [i \in 1..Len(entries) |->
     Row(entries[i].exe, IF entries[i].pref = PERF THEN label_perf ELSE label_power)]

\* Path(p).resolve() as a string, for an absolute path with no links in it.
resolve(p) == normpath(p)

\* _existing_set
existing_set(entries) == {entries[i].exe : i \in 1..Len(entries)}

RECURSIVE AddLoop(_, _, _, _, _, _)
\* A slip: no test against the existing paths.
AddLoop_NoSkip(r, existing, paths, pref, added, skipped) ==
  IF paths = <<>> THEN [reg |-> r, added |-> added, skipped |-> skipped]
  ELSE AddLoop(set_pref(r, normalize_path(resolve(Head(paths))), pref),
               existing, Tail(paths), pref, added + 1, skipped)

\* The loop of _add_paths.
AddLoop(r, existing, paths, pref, added, skipped) ==
  IF paths = <<>> THEN [reg |-> r, added |-> added, skipped |-> skipped]
  ELSE IF normalize_path(resolve(Head(paths))) \in existing
    THEN AddLoop(r, existing, Tail(paths), pref, added, skipped + 1)
  ELSE AddLoop(set_pref(r, normalize_path(resolve(Head(paths))), pref),
               existing, Tail(paths), pref, added + 1, skipped)

\* _add_paths up to its _load_entries: the key afterwards and the two counts.
add_paths(r, enum, paths, high_perf) ==
  AddLoop(r, existing_set(read_all(r, enum).ret), paths,
          IF high_perf THEN PERF ELSE POWER, 0, 0)

RECURSIVE RemoveLoop(_, _)
\* for p in paths: RegistryManager.delete(p)
RemoveLoop(r, paths) ==
  IF paths = <<>> THEN r ELSE RemoveLoop(delete(r, Head(paths)).reg, Tail(paths))

RECURSIVE ChangeLoop(_, _, _)
\* for r in rows: RegistryManager.set_pref(exe, pref)
ChangeLoop(r, paths, pref) ==
  IF paths = <<>> THEN r ELSE ChangeLoop(set_pref(r, Head(paths), pref), Tail(paths), pref)

\* PathDelegate.setModelData on a row showing old_path and pref_text.
PathEdited(r, old_path, new_path, pref_text) ==
  IF new_path # old_path
    THEN set_pref(delete(r, old_path).reg, new_path,
                  IF pref_text = label_perf THEN PERF ELSE POWER)
    ELSE r

\* The lists of distinct rows of a table of n rows.
RowLists(n) ==
  UNION {{rows \in [1..k -> 1..n] : \A i, j \in 1..k : rows[i] = rows[j] => i = j} :
           k \in 0..n}

\* The EXEC texts of rows.
ExecTexts(rows) == [i \in 1..Len(rows) |-> table[rows[i]].exe]

\* The batches handed to _add_paths.
Batches == UNION {[1..n -> Paths] : n \in 0..MaxBatch}

\* The texts typed into the editor of an EXEC cell.
EditTexts == Paths

\* self._load_entries() as the end of a handler that left the key as r.
Reload(r) ==
  table' \in {load_entries(read_all(r, enum).ret) : enum \in Orders(r.vals)}

OnRefresh ==
  /\ Running
  /\ Reload(reg)
  /\ UNCHANGED <<reg, file, last, pre, log, phase, snap, normed, handles, job, hist,
                 default_gpu_high_perf>>

OnAddPaths ==
  /\ Running
  /\ \E paths \in Batches :
       \E a \in {add_paths(reg, enum, paths, default_gpu_high_perf) :
                   enum \in Orders(reg.vals)} :
         /\ reg' = a.reg
         /\ Reload(a.reg)
         /\ \E obs \in BOOLEAN :
              Observe(obs, Call("add_paths", paths,
                                IF default_gpu_high_perf THEN PERF ELSE POWER,
                                NoFile, "none", <<a.added, a.skipped>>))
  /\ UNCHANGED <<file, log, phase, snap, normed, handles, job, hist,
                 default_gpu_high_perf>>

OnRemoveSelected ==
  /\ Running
  /\ \E rows \in RowLists(Len(table)) :
       \E r \in {RemoveLoop(reg, ExecTexts(rows))} :
         /\ reg' = r
         /\ Reload(r)
  /\ UNCHANGED <<file, last, pre, log, phase, snap, normed, handles, job, hist,
                 default_gpu_high_perf>>

OnChangeSelected ==
  /\ Running
  /\ \E rows \in RowLists(Len(table)) \ {<<>>}, high_perf \in BOOLEAN :
       \E r \in {ChangeLoop(reg, ExecTexts(rows), IF high_perf THEN PERF ELSE POWER)} :
         /\ reg' = r
         /\ Reload(r)
  /\ UNCHANGED <<file, last, pre, log, phase, snap, normed, handles, job, hist,
                 default_gpu_high_perf>>

\* PrefDelegate.setModelData: the combo box at index idx
PrefEdit ==
  /\ Running
  /\ \E row \in 1..Len(table), idx \in {0, 1} :
       /\ reg' = set_pref(reg, table[row].exe, IF idx = 1 THEN PERF ELSE POWER)
       /\ table' = [table EXCEPT ![row].pref = IF idx = 1 THEN label_perf ELSE label_power]
  /\ UNCHANGED <<file, last, pre, log, phase, snap, normed, handles, job, hist,
                 default_gpu_high_perf>>

\* PathDelegate.setModelData: the line edit holding text
PathEdit ==
  /\ Running
  /\ \E row \in 1..Len(table), text \in EditTexts :
       /\ reg' = PathEdited(reg, table[row].exe, normalize_path(text), table[row].pref)
       /\ table' = [table EXCEPT ![row].exe = normalize_path(text)]
  /\ UNCHANGED <<file, last, pre, log, phase, snap, normed, handles, job, hist,
                 default_gpu_high_perf>>

\* _set_default_gpu
SetDefaultGpu ==
  /\ Running
  /\ \E high_performance \in BOOLEAN : default_gpu_high_perf' = high_performance
  /\ UNCHANGED <<reg, file, last, pre, log, phase, snap, normed, handles, job, hist,
                 table>>

NextUI ==
  \/ OnRefresh
  \/ OnAddPaths
  \/ OnRemoveSelected
  \/ OnChangeSelected
  \/ PrefEdit
  \/ PathEdit
  \/ SetDefaultGpu

SpecUI == Init /\ [][NextUI]_vars

----------------------------------------------------------------------------
(* normalize_path alone: a path string, normalized, and the result           *)
(* normalized again.                                                         *)

InitNorm == InitKey /\ normed \in {<<p>> : p \in PathStrings}

Normalize ==
  /\ Len(normed) \in 1..MaxApply
  /\ normed' = Append(normed, normalize_path(normed[Len(normed)]))
  /\ UNCHANGED <<reg, file, last, pre, log, phase, snap, handles, job, hist,
                 table, default_gpu_high_perf>>

NextNorm ==
  \/ Normalize

SpecNorm == InitNorm /\ [][NextNorm]_vars

----------------------------------------------------------------------------
(* What the claims speak of *)

\* Every list read_all() may return on key r.
Returned(r) == {read_all(r, enum).ret : enum \in Orders(r.vals)}

\* read_all() on r returns, as a set, exactly S.
ReadsAs(r, S) == \A l \in Returned(r) : ToSet(l) = S

\* The preference the specification gives an integer code of a backup.
CodePref(code) == IF code = 2 THEN PERF ELSE POWER

\* The value contains "GpuPreference=" directly followed by "2".
HasMarker(v) ==
  \E k \in 1..(Len(v) - 1) : v[k] = "GpuPreference=" /\ v[k + 1] = "2"

\* A JSON object whose values are all integers.
IsIntMapping(text) ==
  text.t = "obj" /\ \A i \in 1..Len(text.items) : text.items[i][2].t = "int"

\* A backup document: a mapping from normalized paths to integer codes.
IsBackupMapping(text) ==
  /\ IsIntMapping(text)
  /\ \A i \in 1..Len(text.items) : normalize_path(text.items[i][1]) = text.items[i][1]

\* The paths of calls are pairwise distinct once normalized.
DistinctNorm(calls) ==
  \A i, j \in 1..Len(calls) :
    i # j => normalize_path(calls[i][1]) # normalize_path(calls[j][1])

----------------------------------------------------------------------------
(* C1: whatever the key held (values written by other programs under names   *)
(* that are not normalized included), when restore of a backup mapping M      *)
(* returns without error, read_all() is exactly {(normalize(k), preference of *)
(* M[k]) : k in M}: nothing that is not in M survives.                        *)
C1_RestoreIsFullReplace ==
  (last.op = "restore" /\ last.err = "none" /\ IsBackupMapping(last.text)) =>
    ReadsAs(reg, {Entry(normalize_path(m[1]), CodePref(m[2].v)) :
                    m \in ToSet(last.text.items)})

C3_OtherCodesArePowerSaving ==
  (last.op = "restore" /\ IsIntMapping(last.text)) =>
    /\ last.err = "none"
    /\ \A i \in 1..Len(last.text.items) :
         (\A j \in (i + 1)..Len(last.text.items) :
            normalize_path(last.text.items[j][1]) # normalize_path(last.text.items[i][1]))
         => <<normalize_path(last.text.items[i][1]),
              FormatValue(CodePref(last.text.items[i][2].v))>> \in reg.vals

(* C4: restore of a source that is not JSON, or not a flat string -> integer  *)
(* mapping, fails and leaves the key holding exactly what it held.            *)
C4_RestoreValidatesFirst ==
  (last.op = "restore" /\ last.text.t # "missing" /\ ~IsIntMapping(last.text)) =>
    (last.err # "none" /\ reg.vals = pre.vals)

C6_Overwrite ==
  (/\ phase = "set"
   /\ Len(log) >= 2
   /\ normalize_path(log[Len(log) - 1][1]) = normalize_path(log[Len(log)][1])) =>
    \A l \in Returned(reg) :
      /\ Cardinality({i \in 1..Len(l) : l[i].exe = normalize_path(log[Len(log)][1])}) = 1
      /\ \A i \in 1..Len(l) :
           l[i].exe = normalize_path(log[Len(log)][1]) => l[i].pref = log[Len(log)][2]

C6_Witness ==
  /\ phase = "set"
  /\ Len(log) >= 2
  /\ normalize_path(log[Len(log) - 1][1]) = normalize_path(log[Len(log)][1])
  /\ log[Len(log) - 1][1] # log[Len(log)][1]
  /\ log[Len(log) - 1][2] # log[Len(log)][2]

C8_DeleteAbsentIsNoop ==
  (last.op = "delete" /\ normalize_path(last.path) \notin ValueNames(pre.vals)) =>
    (last.err = "none" /\ reg = pre)

C8_Witness ==
  /\ last.op = "delete"
  /\ pre.vals # {}
  /\ normalize_path(last.path) \notin ValueNames(pre.vals)
  /\ last.err = "none"

(* C9: read_all() raises nothing; on a missing key it returns the empty list; *)
(* on an existing key it returns one entry per stored value, in the order     *)
(* they are enumerated, and no more.                                          *)
C9_ReadAllTotal ==
  last.op = "read_all" =>
    /\ last.err = "none"
    /\ ~pre.exists => last.ret = <<>>
    /\ pre.exists =>
         \E enum \in Orders(pre.vals) :
           /\ Len(last.ret) = Len(enum)
           /\ \A i \in 1..Len(enum) : last.ret[i].exe = normalize_path(enum[i][1])

C9_Witness ==
  /\ last.op = "read_all"
  /\ pre.exists
  /\ Len(last.ret) = 2

(* C10: read_all() reports HighPerformance for a stored value exactly when    *)
(* the value contains the marker of code 2, and PowerSaving for every other   *)
(* value, the empty and the malformed ones included; it never fails.          *)
C10_ValueParsing ==
  last.op = "read_all" =>
    /\ last.err = "none"
    /\ \E enum \in Orders(pre.vals) :
         /\ Len(last.ret) = Len(enum)
         /\ \A i \in 1..Len(enum) :
              last.ret[i].pref = IF HasMarker(enum[i][2]) THEN PERF ELSE POWER

C10_Witness ==
  /\ last.op = "read_all"
  /\ Len(last.ret) = 1
  /\ last.ret[1].pref = POWER
  /\ \E e \in pre.vals : e[2] = <<>>

(* C11: normalize_path is idempotent: for every path string p,               *)
(* normalize(normalize(p)) = normalize(p); a result whose second character   *)
(* is ':' has an upper-case first character and a second normalization       *)
(* leaves it as it is.                                                        *)
C11_NormalizeIdempotent ==
  Len(normed) >= 3 =>
    /\ normed[3] = normed[2]
    /\ (Len(normed[2]) >= 2 /\ normed[2][2] = ":") => normed[2][1] = Upper(normed[2][1])

C13_LastWriterWins ==
  job.pc = "done" =>
    /\ \A e \in hist.w :
         IF e[2] = Gone THEN e[1] \notin ValueNames(reg.vals) ELSE e \in reg.vals
    /\ \A e \in reg.vals : e \in hist.w
    /\ \A e \in hist.late :
         e[1] \notin {normalize_path(job.text.items[i][1]) : i \in 1..Len(job.text.items)}
           => e \in reg.vals

C13_Witness ==
  /\ job.pc = "done"
  /\ job.err = "none"
  /\ Len(job.text.items) = 2
  /\ \E e \in hist.w : e[2] = Gone
  /\ \E e \in hist.late :
       /\ e[1] \notin {normalize_path(job.text.items[i][1]) : i \in 1..Len(job.text.items)}
       /\ e \in reg.vals
  /\ \E e \in hist.late :
       /\ e[1] \in {normalize_path(job.text.items[i][1]) : i \in 1..Len(job.text.items)}
       /\ e \notin reg.vals

(* C14: no handle to the key is held across calls: whenever read_all,        *)
(* set_pref, delete, backup or restore has returned or raised, no handle is  *)
(* open, whether the call ended normally, swallowed a not-found error or     *)
(* let an error through.                                                     *)
C14_NoHandleHeld == handles = 0

C14_Witness ==
  /\ handles = 0
  /\ last.op = "restore"
  /\ last.err = "PermissionError"
  /\ last.ret = <<1, "SetValueEx">>
  /\ pre.vals # {}

(* C15: set_pref(p, x) and delete(p) change at most the value whose name is  *)
(* normalize(p): every value stored under another name, values of other      *)
(* programs included, is there after the call as it was before, and no       *)
(* value appears under another name.                                         *)
C15_SingleEntryFrame ==
  last.op \in {"set_pref", "delete"} =>
    \A e \in pre.vals \cup reg.vals :
      e[1] # normalize_path(last.path) => (e \in pre.vals /\ e \in reg.vals)

C15_Witness ==
  /\ last.op = "set_pref"
  /\ normalize_path(last.path) # last.path
  /\ normalize_path(last.path) \in ValueNames(pre.vals)
  /\ reg.vals # pre.vals
  /\ \E e \in pre.vals :
       /\ e[1] # normalize_path(last.path)
       /\ normalize_path(e[1]) = normalize_path(last.path)

(* C16: adding paths never overwrites.  After _add_paths on a batch, with    *)
(* either default preference: every value the key held is still there;      *)
(* each path whose normalized form read_all() listed before the call is     *)
(* counted as skipped and not written; each other path has a value with the *)
(* default preference; and nothing else was written.                        *)
C16_AddNeverOverwrites ==
  last.op = "add_paths" =>
    /\ pre.vals \subseteq reg.vals
    /\ last.ret[2] =
         Cardinality({i \in 1..Len(last.path) :
                        normalize_path(normpath(last.path[i])) \in
                          {normalize_path(e[1]) : e \in pre.vals}})
    /\ last.ret[1] = Len(last.path) - last.ret[2]
    /\ reg.vals \ pre.vals =
         {<<normalize_path(normpath(last.path[i])), FormatValue(last.pref)>> :
            i \in {j \in 1..Len(last.path) :
                     normalize_path(normpath(last.path[j])) \notin
                       {normalize_path(e[1]) : e \in pre.vals}}}

C16_Witness ==
  /\ last.op = "add_paths"
  /\ last.ret = <<1, 1>>
  /\ last.pref = POWER
  /\ \E e \in pre.vals : e[2] = FormatValue(PERF) /\ e \in reg.vals
  /\ Cardinality(reg.vals) = 2

(* C17: after every sequence of operations of the window (refresh, add,      *)
(* remove selected, change selected, edit of a preference, edit of a path)  *)
(* the table has one row per entry of read_all(), and its (path,            *)
(* preference) pairs are those read_all() returns.                          *)
C17_TableShowsStore ==
  \A l \in Returned(reg) :
    /\ Len(table) = Len(l)
    /\ {<<table[i].exe, table[i].pref>> : i \in 1..Len(table)} =
         {<<l[i].exe, IF l[i].pref = PERF THEN label_perf ELSE label_power>> :
            i \in 1..Len(l)}

====
